---- MODULE Spec2Model ----
(***************************************************************************)
(* Invoice lifecycle and numbering of the invoicing backend: the invoice   *)
(* router (create, update, delete, send, payment proof) over the Settings  *)
(* and Invoice tables of the Prisma schema, and the user router's          *)
(* registration and password changes over the User table.                  *)
(* A request handler is a sequence of database calls                       *)
(* separated by awaits; every database call is one atomic step, and the    *)
(* synchronous code that follows a call belongs to the step of that call.  *)
(*                                                                         *)
(* Requests of different clients interleave between their steps (Spec);    *)
(* SerialSpec runs the same handlers one request at a time, each handler   *)
(* from its first line to its answer in one step.  BillingSpec does the    *)
(* same over every route of the invoice router and every body of create;   *)
(* AccountSpec runs the user router.                                       *)
(*                                                                         *)
(* A nullable column holds Null (<<>>) or <<v>>.  A request body is a       *)
(* function from the keys the body carries to their values.                *)
(***************************************************************************)
EXTENDS Integers, Sequences, FiniteSets, TLC

VARIABLES settings, invoices, nextId, slot, now, issued, last, started, users

vars == <<settings, invoices, nextId, slot, now, issued, last, started, users>>

(* ------------------------------ bounds --------------------------------- *)

\* requests that can be in flight at once
NumProcs == 2

\* invoice rows ever inserted (fresh ids 1..MaxInvoices)
MaxInvoices == 2

\* the clock runs from 1 to MaxTime
MaxTime == 2

\* keys other than status that one update body carries
MaxBodyFields == 1

\* requests that arrive in one run of SerialSpec
MaxRequests == 3

\* requests that arrive in one interleaved run, and the keys other than status
\* that an update body of such a run carries
MaxRaceRequests == 3

MaxRaceBodyFields == 0

\* requests that arrive in one run of AccountSpec
MaxAccountRequests == 3

Procs == 1..NumProcs

Users == {"u1", "u2"}

Null == <<>>

Some(v) == <<v>>

(* ------------------------------ schema --------------------------------- *)

InvoiceStatus == {"UNPAID", "PAID", "OVERDUE", "CANCELLED"}

DefaultStatus == "UNPAID"

DefaultNextInvoiceNumber == 1

\* Settings.invoicePrefix of each tenant: unset, or set by the tenant
PrefixOf(u) == IF u = "u1" THEN Null ELSE Some("FKT")

\* Settings.nextInvoiceNumber of a tenant with no invoice in the table: the
\* default, or where earlier invoices, since deleted, have left it
StartNumbers == {DefaultNextInvoiceNumber, 99999}

SettingsRow(prefix, nextNumber) ==
  [invoicePrefix |-> prefix, nextInvoiceNumber |-> nextNumber]

(* --------------------------- invoice number ---------------------------- *)

DefaultPrefix == "INV"

PadWidth == 5

\* String.prototype.padStart with a one-character filler
RECURSIVE PadStart(_, _, _)
PadStart(s, width, fill) ==
  IF Len(s) >= width THEN s ELSE PadStart(fill \o s, width, fill)

\* settings.invoicePrefix || "INV": null and the empty string are falsy
PrefixOrDefault(prefix) ==
  IF prefix = Null \/ prefix = Some("") THEN DefaultPrefix ELSE prefix[1]

\* the number without its padding
InvoiceNumberUnpadded(prefix, nextNumber) ==
  PrefixOrDefault(prefix) \o ToString(nextNumber)

InvoiceNumber(prefix, nextNumber) ==
  PrefixOrDefault(prefix) \o PadStart(ToString(nextNumber), PadWidth, "0")

(* ---------------------------- user accounts ---------------------------- *)

MinPasswordLength == 8

\* bcrypt.hash: a string that is not the password it was made from
Hash(password) == "$2a$10$" \o password

\* bcrypt.compare
Compare(password, hashed) == hashed = Hash(password)

\* the passwords requests carry; the last is shorter than the schemas allow
Passwords == {"passwordA", "passwordB", "short"}

PasswordOf(u) == "passwordA"

UserRow(hashed, businessName, isGoogleUser, hasPassword) ==
  [password |-> hashed, businessName |-> businessName,
   isGoogleUser |-> isGoogleUser, hasPassword |-> hasPassword]

\* prisma.user.create of POST /register: isGoogleUser and hasPassword are not
\* among its data and take their defaults
RegisteredUser(password) == UserRow(Hash(password), "Toko A", FALSE, FALSE)

\* an account made by a Google sign-in: its password column holds a hash of
\* nothing the user knows
GoogleUserRow == UserRow(Hash("unknown"), "Toko G", TRUE, FALSE)

\* the bodies of PATCH /profile and PATCH /profile/password
AccountBodyValues(k) ==
  CASE k = "currentPassword" -> {"", "passwordA", "passwordB"}
    [] k = "newPassword" -> Passwords
    [] k = "businessName" -> {"Toko B"}

RECURSIVE AccountBodiesOver(_)
AccountBodiesOver(K) ==
  IF K = {} THEN {<<>>}
  ELSE LET k == CHOOSE x \in K : TRUE
       IN  {b @@ (k :> v) : b \in AccountBodiesOver(K \ {k}), v \in AccountBodyValues(k)}

AccountBodies ==
  UNION {AccountBodiesOver(K) : K \in SUBSET {"currentPassword", "newPassword", "businessName"}}

(* ----------------------------- requests -------------------------------- *)

\* items of create requests: the two of the worked example, and items with a
\* quantity of zero, a negative quantity, and a negative price
ItemA == [description |-> "A", quantity |-> 2, price |-> 100]

ItemB == [description |-> "B", quantity |-> 1, price |-> 50]

ItemLists ==
  {<<ItemA, ItemB>>, <<ItemB>>, <<>>,
   <<[description |-> "Z", quantity |-> 0, price |-> 100]>>,
   <<[description |-> "N", quantity |-> -1, price |-> 100]>>,
   <<[description |-> "P", quantity |-> 1, price |-> -50]>>}

TaxRates == {0, 10, -10}

\* a body with no items array
MalformedCreate == [taxRate |-> 10]

\* the bodies of POST /: each item list at the rate of the worked example, the
\* items of the worked example at each rate, and the body with no items; every
\* amount is one the division by 100 leaves whole
CreateRequests ==
  {[items |-> l, taxRate |-> 10] : l \in ItemLists}
    \cup {[items |-> <<ItemA, ItemB>>, taxRate |-> r] : r \in TaxRates}
    \cup {MalformedCreate}

\* the body of the creates of Spec, FaultSpec and SerialSpec
BaseCreate == [items |-> <<ItemA, ItemB>>, taxRate |-> 10]

\* createInvoiceSchema: items is an array of objects with numbers in them, and
\* taxRate is a number; no range, no sign and no length is asked for
CreateSchemaOk(data) == "items" \in DOMAIN data /\ "taxRate" \in DOMAIN data

\* data.items.reduce((sum, item) => sum + item.quantity * item.price, 0)
RECURSIVE Subtotal(_)
Subtotal(items) ==
  IF items = <<>> THEN 0
  ELSE Subtotal(SubSeq(items, 1, Len(items) - 1))
         + items[Len(items)].quantity * items[Len(items)].price

\* a tax that leaves the rate out
TaxFlat(subtotal, taxRate) == subtotal \div 100

\* (subtotal * data.taxRate) / 100
Tax(subtotal, taxRate) == (subtotal * taxRate) \div 100

Total(subtotal, tax) == subtotal + tax

\* items: { create: data.items.map(...) }
StoredItems(items) ==
  [k \in 1..Len(items) |->
     [description |-> items[k].description, quantity |-> items[k].quantity,
      price |-> items[k].price, amount |-> items[k].quantity * items[k].price]]

\* the due date a create request carries, and the one an update carries
DueA == "2026-01-10"

DueB == "2026-02-10"

\* the paidAt an update body carries: a date before the clock's range
PaidAtB == Some(0)

BodyKeys == {"status", "paymentProof", "paymentNote", "dueDate", "notes", "paidAt"}

BodyValues(k) ==
  CASE k = "status" -> InvoiceStatus
    [] k = "paymentProof" -> {Null, Some("proofB")}
    [] k = "paymentNote" -> {Null, Some("noteB")}
    [] k = "dueDate" -> {DueB}
    [] k = "notes" -> {Some("notesB")}
    [] k = "paidAt" -> {PaidAtB}

\* the bodies that carry exactly the keys K
RECURSIVE BodiesOver(_)
BodiesOver(K) ==
  IF K = {} THEN {<<>>}
  ELSE LET k == CHOOSE x \in K : TRUE
       IN  {b @@ (k :> v) : b \in BodiesOver(K \ {k}), v \in BodyValues(k)}

\* a body the schema refuses
BadBody == [status |-> "DRAFT"]

BodiesUpTo(n) ==
  {BadBody} \cup
  UNION {BodiesOver(K) : K \in {K \in SUBSET BodyKeys : Cardinality(K \ {"status"}) <= n}}

UpdateBodies == BodiesUpTo(MaxBodyFields)

RaceBodies == BodiesUpTo(MaxRaceBodyFields)

\* updateInvoiceSchema: status, when present, is one of the enum's values
UpdateSchemaOk(body) ==
  "status" \in DOMAIN body => body["status"] \in InvoiceStatus

Requested(body, k) == IF k \in DOMAIN body THEN Some(body[k]) ELSE Null

(* --------------------------- update handler ---------------------------- *)

\* the guard applied only to bodies that carry a status
PaidGuardStatusOnly(status, body) ==
  status = "PAID" /\ "status" \in DOMAIN body /\ body["status"] # "CANCELLED"

\* "Only allow cancellation for paid invoices"
PaidGuard(status, body) ==
  status = "PAID" /\ Requested(body, "status") # Some("CANCELLED")

\* the guard with the status misspelt
CancelledGuardMisspelt(status) == status = "CANCELED"

\* "Don't allow any changes to cancelled invoices"
CancelledGuard(status) == status = "CANCELLED"

\* finalUpdateData.status === "PAID" && invoice.status !== "PAID"
MarksPaid(body, status) ==
  Requested(body, "status") = Some("PAID") /\ status # "PAID"

\* finalUpdateData without the paidAt stamp
FinalUpdateDataUnstamped(body, status, t) ==
  LET keys == (DOMAIN body \ {"paymentNote", "notes"})
                \cup (IF "paymentNote" \in DOMAIN body THEN {"notes"} ELSE {})
  IN  [k \in keys |-> IF k = "notes" THEN body["paymentNote"] ELSE body[k]]

\* finalUpdateData: the body with notes replaced by paymentNote (undefined when
\* the body carries no paymentNote), paymentNote removed, and paidAt stamped
\* when the invoice becomes paid.  A key whose value is undefined is no key.
FinalUpdateData(body, status, t) ==
  LET keys == (DOMAIN body \ {"paymentNote", "notes"})
                \cup (IF "paymentNote" \in DOMAIN body THEN {"notes"} ELSE {})
      spread == [k \in keys |-> IF k = "notes" THEN body["paymentNote"] ELSE body[k]]
  IN  IF MarksPaid(body, status)
        THEN [k \in keys \cup {"paidAt"} |-> IF k = "paidAt" THEN Some(t) ELSE spread[k]]
        ELSE spread

\* prisma.invoice.update: the columns the data names take its values
ApplyData(inv, data) ==
  [k \in DOMAIN inv |-> IF k \in DOMAIN data THEN data[k] ELSE inv[k]]

(* ------------------------------ state ---------------------------------- *)

\* settings, invoices: the Settings and Invoice tables (rows by userId, by id)
\* nextId:   the next fresh invoice id
\* slot:     the requests in flight, each with the locals of its handler
\* now:      the clock
\* issued:   history: the numbers given to inserted invoices, per tenant
\* last:     history: the last request answered and its answer
\* started:  history: the requests that have arrived in an interleaved run

IdleSlot ==
  [pc |-> "idle", user |-> "none", id |-> 0, body |-> <<>>, seen |-> "none",
   at |-> 0, nextNumber |-> 0, number |-> "", data |-> <<>>]

\* an answer: the request it answers (req: the status or the current password
\* it carried; data: the body of a create), the status the handler found, and
\* the response
Answer(op, u, id, req, data, seen, code) ==
  [op |-> op, user |-> u, id |-> id, req |-> req, data |-> data, seen |-> seen,
   resp |-> code]

NoAnswer == Answer("none", "none", 0, Null, <<>>, "none", "none")

CreateAnswer(u, id, data, code) == Answer("create", u, id, Null, data, "none", code)

DeleteAnswer(u, id, code) == Answer("delete", u, id, Null, <<>>, "none", code)

UpdateAnswer(u, id, body, seen, code) ==
  Answer("update", u, id, Requested(body, "status"), <<>>, seen, code)

\* the row of prisma.invoice.create with the tax left out of the total
NewInvoiceMiscounted(u, number, data) ==
  LET subtotal == Subtotal(data.items)
      tax == Tax(subtotal, data.taxRate)
  IN  [userId |-> u, number |-> number, status |-> DefaultStatus, notes |-> Null,
       paymentProof |-> Null, dueDate |-> DueA, paidAt |-> Null,
       subtotal |-> subtotal, tax |-> tax, total |-> subtotal,
       items |-> StoredItems(data.items)]

\* the row of prisma.invoice.create, with its item rows
NewInvoice(u, number, data) ==
  LET subtotal == Subtotal(data.items)
      tax == Tax(subtotal, data.taxRate)
  IN  [userId |-> u, number |-> number, status |-> DefaultStatus, notes |-> Null,
       paymentProof |-> Null, dueDate |-> DueA, paidAt |-> Null,
       subtotal |-> subtotal, tax |-> tax, total |-> Total(subtotal, tax),
       items |-> StoredItems(data.items)]

Init ==
  /\ settings \in {[u \in Users |-> SettingsRow(PrefixOf(u), n[u])] :
                      n \in [Users -> StartNumbers]}
  /\ invoices = <<>>
  /\ nextId = 1
  /\ slot = [p \in Procs |-> IdleSlot]
  /\ now = 1
  /\ issued = [u \in Users |-> <<>>]
  /\ last = NoAnswer
  /\ started = 0
  /\ users = [u \in Users |-> RegisteredUser(PasswordOf(u))]

(* ------------------------------ accounts ------------------------------- *)

\* the account that signed in with Google, and every account that can call
GoogleUser == "g1"

Callers == Users \cup {GoogleUser}

AccountAnswer(op, u, body, code) ==
  Answer(op, u, 0, Requested(body, "currentPassword"), <<>>, "none", code)

\* registerSchema: password: z.string().min(8)
RegisterSchemaOk(password) == Len(password) >= MinPasswordLength

\* POST /register: the user row and, nested in the same create, its settings
Register(u, password) ==
  /\ IF ~RegisterSchemaOk(password)
       THEN /\ last' = AccountAnswer("register", u, <<>>, "error")
            /\ UNCHANGED <<users, settings>>
       ELSE IF u \in DOMAIN users
       THEN /\ last' = AccountAnswer("register", u, <<>>, "409")
            /\ UNCHANGED <<users, settings>>
       ELSE /\ users' = users @@ (u :> RegisteredUser(password))
            /\ settings' = settings @@ (u :> SettingsRow(Null, DefaultNextInvoiceNumber))
            /\ last' = AccountAnswer("register", u, <<>>, "ok")
  /\ UNCHANGED <<invoices, nextId, slot, now, issued>>

\* a string that JavaScript takes for true: present and not empty
Truthy(body, k) == k \in DOMAIN body /\ body[k] # ""

\* updateProfileSchema: newPassword: z.string().min(8).optional()
ProfileSchemaOk(body) ==
  "newPassword" \in DOMAIN body => Len(body["newPassword"]) >= MinPasswordLength

\* PATCH /profile: the answer of the password checks, "go" when they pass
ProfilePasswordOutcome(user, body) ==
  IF ~Truthy(body, "newPassword") THEN "go"
  ELSE IF user.hasPassword /\ ~Truthy(body, "currentPassword") THEN "400"
  ELSE IF user.hasPassword /\ ~Compare(body["currentPassword"], user.password) THEN "400"
  ELSE IF user.hasPassword /\ Compare(body["newPassword"], user.password) THEN "400"
  ELSE "go"

\* data: { ...updateData, ...passwordUpdate }
ProfileUpdate(user, body) ==
  LET named == IF "businessName" \in DOMAIN body
                 THEN [user EXCEPT !.businessName = body["businessName"]]
                 ELSE user
  IN  IF Truthy(body, "newPassword")
        THEN [named EXCEPT !.password = Hash(body["newPassword"]), !.hasPassword = TRUE]
        ELSE named

UpdateProfile(u, body) ==
  /\ IF ~ProfileSchemaOk(body)
       THEN /\ last' = AccountAnswer("profile", u, body, "error")
            /\ UNCHANGED users
       ELSE IF u \notin DOMAIN users
       THEN /\ last' = AccountAnswer("profile", u, body, "404")
            /\ UNCHANGED users
       ELSE IF ProfilePasswordOutcome(users[u], body) # "go"
       THEN /\ last' = AccountAnswer("profile", u, body,
                                     ProfilePasswordOutcome(users[u], body))
            /\ UNCHANGED users
       ELSE /\ users' = [users EXCEPT ![u] = ProfileUpdate(@, body)]
            /\ last' = AccountAnswer("profile", u, body, "ok")
  /\ UNCHANGED <<settings, invoices, nextId, slot, now, issued>>

\* updatePasswordSchema: newPassword: z.string().min(8)
PasswordSchemaOk(body) ==
  "newPassword" \in DOMAIN body /\ Len(body["newPassword"]) >= MinPasswordLength

\* "Verifikasi password lama jika: user manual, user Google yang sudah pernah
\* set password"
MustVerify(user) == ~user.isGoogleUser \/ (user.isGoogleUser /\ user.hasPassword)

\* PATCH /profile/password: the answer of the checks, "go" when they pass
PasswordOutcome(user, body) ==
  IF ~MustVerify(user) THEN "go"
  ELSE IF ~Truthy(body, "currentPassword") THEN "400"
  ELSE IF ~Compare(body["currentPassword"], user.password) THEN "400"
  ELSE IF Compare(body["newPassword"], user.password) THEN "400"
  ELSE "go"

UpdatePassword(u, body) ==
  /\ IF ~PasswordSchemaOk(body)
       THEN /\ last' = AccountAnswer("password", u, body, "error")
            /\ UNCHANGED users
       ELSE IF u \notin DOMAIN users
       THEN /\ last' = AccountAnswer("password", u, body, "404")
            /\ UNCHANGED users
       ELSE IF PasswordOutcome(users[u], body) # "go"
       THEN /\ last' = AccountAnswer("password", u, body, PasswordOutcome(users[u], body))
            /\ UNCHANGED users
       ELSE /\ users' = [users EXCEPT ![u] =
                           [@ EXCEPT !.password = Hash(body["newPassword"]),
                                     !.hasPassword = TRUE]]
            /\ last' = AccountAnswer("password", u, body, "ok")
  /\ UNCHANGED <<settings, invoices, nextId, slot, now, issued>>

(* --------------------------- create invoice ---------------------------- *)

\* @@unique([userId, number])
NumberTaken(u, number) ==
  \E i \in DOMAIN invoices : invoices[i].userId = u /\ invoices[i].number = number

\* nextInvoiceNumber: { increment: 1 }
Incremented(s) == [s EXCEPT !.nextInvoiceNumber = @ + 1]

Issue(u, n, number) ==
  [issued EXCEPT ![u] = Append(@, [n |-> n, number |-> number])]

InFlightCreates == {q \in Procs : slot[q].pc = "create_insert"}

\* parse, totals, prisma.settings.findUnique, and the number built from it
CreateRead(p, u, data) ==
  /\ slot[p].pc = "idle"
  /\ nextId + Cardinality(InFlightCreates) <= MaxInvoices
  /\ IF ~CreateSchemaOk(data)
       THEN /\ last' = CreateAnswer(u, 0, data, "error")
            /\ UNCHANGED slot
       ELSE IF u \notin DOMAIN settings
       THEN /\ last' = CreateAnswer(u, 0, data, "400")
            /\ UNCHANGED slot
       ELSE /\ slot' = [slot EXCEPT ![p] =
                       [IdleSlot EXCEPT !.pc = "create_insert", !.user = u,
                          !.data = data,
                          !.nextNumber = settings[u].nextInvoiceNumber,
                          !.number = InvoiceNumber(settings[u].invoicePrefix,
                                                   settings[u].nextInvoiceNumber)]]
            /\ UNCHANGED last
  /\ UNCHANGED <<settings, invoices, nextId, now, issued, users>>

\* prisma.invoice.create
CreateInsert(p) ==
  /\ slot[p].pc = "create_insert"
  /\ IF NumberTaken(slot[p].user, slot[p].number)
       THEN /\ slot' = [slot EXCEPT ![p] = IdleSlot]
            /\ last' = CreateAnswer(slot[p].user, 0, slot[p].data, "500")
            /\ UNCHANGED <<invoices, nextId, issued>>
       ELSE /\ invoices' = invoices @@
                 (nextId :> NewInvoice(slot[p].user, slot[p].number, slot[p].data))
            /\ nextId' = nextId + 1
            /\ issued' = Issue(slot[p].user, slot[p].nextNumber, slot[p].number)
            /\ slot' = [slot EXCEPT ![p].pc = "create_increment", ![p].id = nextId]
            /\ UNCHANGED last
  /\ UNCHANGED <<settings, now, started, users>>

\* prisma.settings.update, then the answer
CreateIncrement(p) ==
  /\ slot[p].pc = "create_increment"
  /\ settings' = [settings EXCEPT ![slot[p].user] = Incremented(@)]
  /\ slot' = [slot EXCEPT ![p] = IdleSlot]
  /\ last' = CreateAnswer(slot[p].user, slot[p].id, slot[p].data, "ok")
  /\ UNCHANGED <<invoices, nextId, now, issued, started, users>>

\* prisma.settings.update rejects (the database call fails, or the request
\* dies before it is made): the catch block hands the error on
CreateIncrementFails(p) ==
  /\ slot[p].pc = "create_increment"
  /\ slot' = [slot EXCEPT ![p] = IdleSlot]
  /\ last' = CreateAnswer(slot[p].user, slot[p].id, slot[p].data, "500")
  /\ UNCHANGED <<settings, invoices, nextId, now, issued, started, users>>

\* a refusal that leaves a settings row behind for the caller
RefuseCreateProvisioning(u, data, code) ==
  /\ last' = CreateAnswer(u, 0, data, code)
  /\ settings' = IF u \in DOMAIN settings THEN settings
                 ELSE settings @@ (u :> SettingsRow(Null, DefaultNextInvoiceNumber))
  /\ UNCHANGED <<invoices, nextId, issued>>

\* the handler throws before its first write
RefuseCreate(u, data, code) ==
  /\ last' = CreateAnswer(u, 0, data, code)
  /\ UNCHANGED <<settings, invoices, nextId, issued>>

\* the whole handler, with no other request between its database calls
CreateInvoice(u, data) ==
  /\ nextId <= MaxInvoices
  /\ IF ~CreateSchemaOk(data) THEN RefuseCreate(u, data, "error")
     ELSE IF u \notin DOMAIN settings THEN RefuseCreate(u, data, "400")
     ELSE LET nextNumber == settings[u].nextInvoiceNumber
              number == InvoiceNumber(settings[u].invoicePrefix, nextNumber)
          IN  IF NumberTaken(u, number) THEN RefuseCreate(u, data, "500")
              ELSE /\ invoices' = invoices @@ (nextId :> NewInvoice(u, number, data))
                   /\ nextId' = nextId + 1
                   /\ issued' = Issue(u, nextNumber, number)
                   /\ settings' = [settings EXCEPT ![u] = Incremented(@)]
                   /\ last' = CreateAnswer(u, nextId, data, "ok")
  /\ UNCHANGED <<slot, now, users>>

(* --------------------------- update invoice ---------------------------- *)

\* safeParse, prisma.invoice.findUnique({ where: { id } }) and the two guards:
\* the status the handler answers with, or "go" when it goes on to write
LoadOutcome(id, body) ==
  IF ~UpdateSchemaOk(body) THEN "400"
  ELSE IF id \notin DOMAIN invoices THEN "404"
  ELSE IF PaidGuard(invoices[id].status, body) THEN "400"
  ELSE IF CancelledGuard(invoices[id].status) THEN "400"
  ELSE "go"

SeenStatus(id) == IF id \in DOMAIN invoices THEN invoices[id].status ELSE "none"

\* the request of user u arrives, and the handler runs up to new Date() for
\* finalUpdateData
UpdateLoad(p, u, id, body) ==
  /\ slot[p].pc = "idle"
  /\ IF LoadOutcome(id, body) = "go"
       THEN /\ slot' = [slot EXCEPT ![p] =
                         [IdleSlot EXCEPT !.pc = "update_write", !.user = u,
                            !.id = id, !.body = body,
                            !.seen = invoices[id].status, !.at = now]]
            /\ UNCHANGED last
       ELSE /\ last' = UpdateAnswer(u, id, body, SeenStatus(id), LoadOutcome(id, body))
            /\ UNCHANGED slot
  /\ UNCHANGED <<settings, invoices, nextId, now, issued, users>>

\* prisma.invoice.update({ where: { id }, data: finalUpdateData })
UpdateWrite(p) ==
  /\ slot[p].pc = "update_write"
  /\ IF slot[p].id \in DOMAIN invoices
       THEN /\ invoices' = [invoices EXCEPT ![slot[p].id] =
                 ApplyData(@, FinalUpdateData(slot[p].body, slot[p].seen, slot[p].at))]
            /\ last' = UpdateAnswer(slot[p].user, slot[p].id, slot[p].body,
                                    slot[p].seen, "ok")
       ELSE /\ last' = UpdateAnswer(slot[p].user, slot[p].id, slot[p].body,
                                    slot[p].seen, "500")
            /\ UNCHANGED invoices
  /\ slot' = [slot EXCEPT ![p] = IdleSlot]
  /\ UNCHANGED <<settings, nextId, now, issued, started, users>>

\* the whole handler, with no other request between its database calls
UpdateInvoice(u, id, body) ==
  /\ IF LoadOutcome(id, body) = "go"
       THEN /\ invoices' = [invoices EXCEPT ![id] =
                 ApplyData(@, FinalUpdateData(body, invoices[id].status, now))]
            /\ last' = UpdateAnswer(u, id, body, invoices[id].status, "ok")
       ELSE /\ last' = UpdateAnswer(u, id, body, SeenStatus(id), LoadOutcome(id, body))
            /\ UNCHANGED invoices
  /\ UNCHANGED <<settings, nextId, slot, now, issued, users>>

(* --------------------------- delete invoice ---------------------------- *)

\* a delete that gives the number of the deleted invoice back
DeleteInvoiceReleasingNumber(u, id) ==
  /\ IF id \in DOMAIN invoices /\ invoices[id].userId = u
       THEN /\ invoices' = [i \in DOMAIN invoices \ {id} |-> invoices[i]]
            /\ settings' = [settings EXCEPT ![u].nextInvoiceNumber = @ - 1]
            /\ last' = DeleteAnswer(u, id, "ok")
       ELSE /\ last' = DeleteAnswer(u, id, "500")
            /\ UNCHANGED <<invoices, settings>>
  /\ UNCHANGED <<nextId, slot, now, issued, users>>

\* prisma.invoice.delete({ where: { id, userId } })
DeleteInvoice(u, id) ==
  /\ IF id \in DOMAIN invoices /\ invoices[id].userId = u
       THEN /\ invoices' = [i \in DOMAIN invoices \ {id} |-> invoices[i]]
            /\ last' = DeleteAnswer(u, id, "ok")
       ELSE /\ last' = DeleteAnswer(u, id, "500")
            /\ UNCHANGED invoices
  /\ UNCHANGED <<settings, nextId, slot, now, issued, users>>

(* --------------------- send and payment proof -------------------------- *)

\* POST /:id/send: findFirst({ where: { id, userId } }), the check of the
\* status, sendInvoiceEmail; sent: the mail went out
SendOutcome(u, id, sent) ==
  IF ~(id \in DOMAIN invoices /\ invoices[id].userId = u) THEN "500"
  ELSE IF invoices[id].status = "CANCELLED" THEN "500"
  ELSE IF sent THEN "ok" ELSE "500"

\* a send that counts the mail on the sender's invoice counter
SendInvoiceCounting(u, id, sent) ==
  /\ last' = Answer("send", u, id, Null, <<>>, "none", SendOutcome(u, id, sent))
  /\ settings' = IF SendOutcome(u, id, sent) = "ok"
                   THEN [settings EXCEPT ![u] = Incremented(@)]
                   ELSE settings
  /\ UNCHANGED <<invoices, nextId, slot, now, issued, users>>

SendInvoice(u, id, sent) ==
  /\ last' = Answer("send", u, id, Null, <<>>, "none", SendOutcome(u, id, sent))
  /\ UNCHANGED <<settings, invoices, nextId, slot, now, issued, users>>

\* POST /:id/payment-proof: the file, findUnique({ where: { id } }), the checks
\* of the status; the answer is the URL of the stored file
ProofOutcome(id, file) ==
  IF ~file THEN "400"
  ELSE IF id \notin DOMAIN invoices THEN "404"
  ELSE IF invoices[id].status = "PAID" THEN "400"
  ELSE IF invoices[id].status = "CANCELLED" THEN "400"
  ELSE "ok"

UploadPaymentProof(u, id, file) ==
  /\ last' = Answer("proof", u, id, Null, <<>>, "none", ProofOutcome(id, file))
  /\ UNCHANGED <<settings, invoices, nextId, slot, now, issued, users>>

(* ------------------------------- clock --------------------------------- *)

Tick ==
  /\ now < MaxTime
  /\ now' = now + 1
  /\ UNCHANGED <<settings, invoices, nextId, slot, issued, last, started, users>>

(* --------------------------- specifications ---------------------------- *)

Ids == 1..MaxInvoices

\* a request arrives in an interleaved run
Arrives == started < MaxRaceRequests /\ started' = started + 1

Begin(p) ==
  \/ \E u \in Users : CreateRead(p, u, BaseCreate) /\ Arrives
  \/ \E u \in Users, id \in Ids, body \in RaceBodies :
       UpdateLoad(p, u, id, body) /\ Arrives
  \/ \E u \in Users, id \in Ids : DeleteInvoice(u, id) /\ Arrives

\* a request in flight makes its next database call
Continue(p) ==
  \/ CreateInsert(p)
  \/ CreateIncrement(p)
  \/ UpdateWrite(p)

Next ==
  \/ Tick
  \/ \E p \in Procs : Begin(p) \/ Continue(p)

\* requests interleave freely between their database calls
Spec == Init /\ [][Next]_vars

FaultNext ==
  \/ Next
  \/ \E p \in Procs : CreateIncrementFails(p)

\* requests interleave, and the database call after the insert can fail
FaultSpec == Init /\ [][FaultNext]_vars

\* a request arrives in a run of SerialSpec
Served == started < MaxRequests /\ started' = started + 1

SerialNext ==
  \/ Tick
  \/ \E u \in Users : CreateInvoice(u, BaseCreate) /\ Served
  \/ \E u \in Users, id \in Ids, body \in UpdateBodies :
       UpdateInvoice(u, id, body) /\ Served
  \/ \E u \in Users, id \in Ids : DeleteInvoice(u, id) /\ Served

\* one request at a time, each handler run from arrival to answer
SerialSpec == Init /\ [][SerialNext]_vars

\* the tenants of Init, and an account that has no settings row
BillingInit ==
  /\ settings = [u \in Users |-> SettingsRow(PrefixOf(u), DefaultNextInvoiceNumber)]
  /\ users = [u \in Callers |->
                IF u = GoogleUser THEN GoogleUserRow ELSE RegisteredUser(PasswordOf(u))]
  /\ invoices = <<>>
  /\ nextId = 1
  /\ slot = [p \in Procs |-> IdleSlot]
  /\ now = 1
  /\ issued = [u \in Users |-> <<>>]
  /\ last = NoAnswer
  /\ started = 0

BillingNext ==
  \/ \E u \in Callers, data \in CreateRequests : CreateInvoice(u, data) /\ Served
  \/ \E u \in Users, id \in Ids, body \in RaceBodies :
       UpdateInvoice(u, id, body) /\ Served
  \/ \E u \in Users, id \in Ids : DeleteInvoice(u, id) /\ Served
  \/ \E u \in Users, id \in Ids, sent \in BOOLEAN : SendInvoice(u, id, sent) /\ Served
  \/ \E u \in Users, id \in Ids, file \in BOOLEAN :
       UploadPaymentProof(u, id, file) /\ Served

\* every route of the invoice router that reads or writes an invoice, one
\* request at a time, with every body create accepts or refuses
BillingSpec == BillingInit /\ [][BillingNext]_vars

\* a request arrives in a run of AccountSpec
Asked == started < MaxAccountRequests /\ started' = started + 1

\* nobody has registered; one account came in through Google
AccountInit ==
  /\ settings = [u \in {} |-> SettingsRow(Null, DefaultNextInvoiceNumber)]
  /\ users = [u \in {GoogleUser} |-> GoogleUserRow]
  /\ invoices = <<>>
  /\ nextId = 1
  /\ slot = [p \in Procs |-> IdleSlot]
  /\ now = 1
  /\ issued = [u \in Users |-> <<>>]
  /\ last = NoAnswer
  /\ started = 0

AccountNext ==
  \/ \E u \in Users, password \in Passwords : Register(u, password) /\ Asked
  \/ \E u \in Callers, body \in AccountBodies : UpdateProfile(u, body) /\ Asked
  \/ \E u \in Callers, body \in AccountBodies : UpdatePassword(u, body) /\ Asked

\* registration and the two endpoints that can change a password
AccountSpec == AccountInit /\ [][AccountNext]_vars

(* ------------------------------- claims -------------------------------- *)

\* in a run of SerialSpec: the step is a request, handled and answered
Handled == started' # started

Owns(u, id) == id \in DOMAIN invoices /\ invoices[id].userId = u

WellFormed(req) == req = Null \/ req[1] \in InvoiceStatus

\* C1: concurrent create calls of a tenant all succeed, and the numbers given
\* to their invoices are distinct and consecutive: no create of a tenant that
\* has a settings row is answered with an error, no two invoices of a tenant
\* carry the same number, and the k-th number given out is the first plus k-1.
C1_ConcurrentCreatesConsecutive ==
  /\ (last.op = "create" /\ last.user \in DOMAIN settings) => last.resp = "ok"
  /\ \A i, j \in DOMAIN invoices :
       (i # j /\ invoices[i].userId = invoices[j].userId)
         => invoices[i].number # invoices[j].number
  /\ \A u \in Users : \A k \in 1..Len(issued[u]) :
       issued[u][k].n = issued[u][1].n + (k - 1)

\* C2: in every reachable state, a create that failed part-way included, the
\* tenant's counter has advanced exactly once per invoice that create has
\* persisted: the counter stands at the first number given out plus the number
\* of invoices inserted.
C2_NumberAndInvoiceTogether ==
  \A u \in Users :
    Len(issued[u]) > 0
      => settings[u].nextInvoiceNumber = issued[u][1].n + Len(issued[u])

\* C3: an update whose invoice id does not exist, or whose invoice belongs to
\* another tenant than the caller, is answered not-found and changes nothing.
C3_UpdateOnlyOwnInvoice ==
  [][(Handled /\ last'.op = "update" /\ WellFormed(last'.req)
        /\ ~Owns(last'.user, last'.id))
       => (last'.resp = "404" /\ invoices' = invoices)]_vars

AnsweredUpdate(i) == Handled /\ last'.op = "update" /\ last'.id = i

\* C4: every update of an invoice whose status is CANCELLED, whatever its body,
\* is answered 400 and leaves the invoice as it is.
C4_CancelledIsFinal ==
  [][\A i \in DOMAIN invoices :
       invoices[i].status = "CANCELLED"
         => /\ AnsweredUpdate(i) => (last'.resp = "400" /\ invoices' = invoices)
            /\ i \in DOMAIN invoices' => invoices'[i] = invoices[i]]_vars

\* an update that asked for PAID has just been refused on a cancelled invoice
C4_Witness ==
  /\ last.op = "update" /\ last.resp = "400" /\ last.seen = "CANCELLED"
  /\ last.req = Some("PAID")
  /\ last.id \in DOMAIN invoices /\ invoices[last.id].status = "CANCELLED"

\* C5: an update of an invoice whose status is PAID is accepted only when it
\* asks for CANCELLED; with no status, or PAID, UNPAID or OVERDUE, it is
\* answered 400 and leaves the invoice as it is.
C5_PaidOnlyCancels ==
  [][\A i \in DOMAIN invoices :
       (invoices[i].status = "PAID" /\ AnsweredUpdate(i))
         => IF last'.req = Some("CANCELLED")
              THEN last'.resp = "ok"
              ELSE last'.resp = "400" /\ invoices' = invoices]_vars

\* an update with no status has just been refused on a paid invoice
C5_Witness ==
  /\ last.op = "update" /\ last.resp = "400" /\ last.seen = "PAID"
  /\ last.req = Null
  /\ last.id \in DOMAIN invoices /\ invoices[last.id].status = "PAID"

AllowedTransitions ==
  {<<"UNPAID", "PAID">>, <<"UNPAID", "OVERDUE">>, <<"UNPAID", "CANCELLED">>,
   <<"OVERDUE", "PAID">>, <<"OVERDUE", "CANCELLED">>, <<"PAID", "CANCELLED">>}

\* C6: an invoice is created UNPAID, and every change of an invoice's status is
\* one of the six allowed transitions.
C6_OnlyAllowedTransitions ==
  [][\A i \in DOMAIN invoices' :
       IF i \in DOMAIN invoices
         THEN invoices'[i].status # invoices[i].status
                => <<invoices[i].status, invoices'[i].status>> \in AllowedTransitions
         ELSE invoices'[i].status = "UNPAID"]_vars

\* C7: an update that takes an invoice from UNPAID or OVERDUE to PAID sets
\* paidAt to the time of the request; an update that asks for PAID on a PAID
\* invoice is refused, and paidAt stays as long as the invoice stays PAID.
C7_FirstPaidAtRetained ==
  [][\A i \in DOMAIN invoices \cap DOMAIN invoices' :
       /\ (invoices[i].status # "PAID" /\ invoices'[i].status = "PAID")
            => invoices'[i].paidAt = Some(now)
       /\ (invoices[i].status = "PAID" /\ invoices'[i].status = "PAID")
            => invoices'[i].paidAt = invoices[i].paidAt
       /\ (invoices[i].status = "PAID" /\ AnsweredUpdate(i) /\ last'.req = Some("PAID"))
            => last'.resp = "400"]_vars

\* PAID was asked again, later than the stamp, and the stamp is still there
C7_Witness ==
  /\ last.op = "update" /\ last.resp = "400" /\ last.seen = "PAID"
  /\ last.req = Some("PAID")
  /\ last.id \in DOMAIN invoices
  /\ invoices[last.id].status = "PAID"
  /\ invoices[last.id].paidAt # Null
  /\ invoices[last.id].paidAt[1] < now

\* what the update handler gives when it runs as one step on the row as it is
AtomicUpdate(id, body, t) ==
  IF LoadOutcome(id, body) = "go"
    THEN [invoices EXCEPT ![id] = ApplyData(@, FinalUpdateData(body, @.status, t))]
    ELSE invoices

\* C8: an update is one atomic step: what a request writes is what its handler,
\* run in one step on the invoice as committed at the time of the write, would
\* have written (nothing, when its guards refuse that invoice).
C8_UpdateIsAtomic ==
  [][\A p \in Procs :
       (slot[p].pc = "update_write" /\ slot'[p].pc = "idle")
         => invoices' = AtomicUpdate(slot[p].id, slot[p].body, slot[p].at)]_vars

\* C9: within a tenant the numbers given out strictly increase and never
\* repeat, whatever has been deleted since, and no two invoices of a tenant
\* carry the same number.
C9_NumbersNeverReused ==
  /\ \A u \in Users : \A j, k \in 1..Len(issued[u]) :
       j < k => /\ issued[u][j].n < issued[u][k].n
                /\ issued[u][j].number # issued[u][k].number
  /\ \A i, j \in DOMAIN invoices :
       (i # j /\ invoices[i].userId = invoices[j].userId)
         => invoices[i].number # invoices[j].number

\* a tenant created an invoice, deleted it, and created another
C9_Witness ==
  \E u \in Users :
    /\ Len(issued[u]) = 2
    /\ ~NumberTaken(u, issued[u][1].number)
    /\ NumberTaken(u, issued[u][2].number)
    /\ last.op = "create" /\ last.resp = "ok"

DigitChars == <<"0", "1", "2", "3", "4", "5", "6", "7", "8", "9">>

DigitAt(n, place) == DigitChars[((n \div place) % 10) + 1]

\* n in decimal, at least five digits wide, zeros in front
ZeroPadded(n) ==
  IF n >= 100000 THEN ToString(n)
  ELSE DigitAt(n, 10000) \o DigitAt(n, 1000) \o DigitAt(n, 100) \o DigitAt(n, 10)
         \o DigitAt(n, 1)

\* C10: a successful create gives the invoice the tenant's prefix (INV when the
\* tenant has none) followed by the counter as it was, zero-padded to five
\* digits, and leaves the counter one greater.
C10_NumberFormat ==
  [][(Handled /\ last'.op = "create" /\ last'.resp = "ok")
       => LET u == last'.user
              prefix == settings[u].invoicePrefix
              n == settings[u].nextInvoiceNumber
          IN  /\ last'.id \in DOMAIN invoices'
              /\ invoices'[last'.id].number =
                   (IF prefix = Null THEN "INV" ELSE prefix[1]) \o ZeroPadded(n)
              /\ settings'[u].nextInvoiceNumber = n + 1]_vars

\* counter 1 of a tenant with no prefix gave INV00001 and left the counter at 2
C10_Witness ==
  /\ last.op = "create" /\ last.resp = "ok"
  /\ last.id \in DOMAIN invoices
  /\ invoices[last.id].number = "INV00001"
  /\ settings[last.user].nextInvoiceNumber = 2

\* the sum of quantity * price over the first k rows
RECURSIVE LineSum(_, _)
LineSum(rows, k) ==
  IF k = 0 THEN 0 ELSE rows[k].quantity * rows[k].price + LineSum(rows, k - 1)

\* C11: every persisted invoice has total = subtotal + tax, subtotal = the sum
\* of quantity * price over its items, and on each item amount = quantity *
\* price, after any sequence of create, update and delete calls.
C11_TotalsConsistent ==
  \A i \in DOMAIN invoices :
    /\ invoices[i].total = invoices[i].subtotal + invoices[i].tax
    /\ invoices[i].subtotal = LineSum(invoices[i].items, Len(invoices[i].items))
    /\ \A k \in DOMAIN invoices[i].items :
         invoices[i].items[k].amount
           = invoices[i].items[k].quantity * invoices[i].items[k].price

\* an invoice with two items and a tax has been updated, after another invoice
\* was created
C11_Witness ==
  /\ last.op = "update" /\ last.resp = "ok"
  /\ last.id \in DOMAIN invoices
  /\ Len(invoices[last.id].items) = 2
  /\ invoices[last.id].tax > 0
  /\ invoices[last.id].status = "PAID"
  /\ nextId > 2

\* C12: a create that succeeds stores tax = subtotal * taxRate / 100, with
\* subtotal the sum of quantity * price over the items of the request, and
\* total = subtotal + tax.
C12_TaxFromRate ==
  [][(Handled /\ last'.op = "create" /\ last'.resp = "ok")
       => LET inv == invoices'[last'.id]
              sum == LineSum(last'.data.items, Len(last'.data.items))
          IN  /\ inv.subtotal = sum
              /\ 100 * inv.tax = sum * last'.data.taxRate
              /\ 100 * inv.total = 100 * sum + sum * last'.data.taxRate]_vars

\* items (2, 100) and (1, 50) at rate 10 gave 250, 25 and 275
C12_Witness ==
  /\ last.op = "create" /\ last.resp = "ok"
  /\ last.data = [items |-> <<ItemA, ItemB>>, taxRate |-> 10]
  /\ last.id \in DOMAIN invoices
  /\ invoices[last.id].subtotal = 250
  /\ invoices[last.id].tax = 25
  /\ invoices[last.id].total = 275

\* what the specification asks create to refuse
RefusedInput(data) ==
  \/ "items" \notin DOMAIN data
  \/ data.items = <<>>
  \/ \E k \in DOMAIN data.items : data.items[k].quantity <= 0 \/ data.items[k].price < 0
  \/ data.taxRate < 0

\* C13: a create whose item list is empty, or that has an item with a quantity
\* of zero or less or a negative price, or a negative tax rate, is refused,
\* persists no invoice and leaves the counter alone.
C13_InvalidInputRefused ==
  [][(Handled /\ last'.op = "create" /\ RefusedInput(last'.data))
       => /\ last'.resp # "ok"
          /\ invoices' = invoices
          /\ settings' = settings]_vars

\* C14: a create by a caller with no settings row fails and changes nothing:
\* no invoice, no item, and no settings row made or changed.
C14_MissingSettingsRefused ==
  [][(Handled /\ last'.op = "create" /\ last'.user \notin DOMAIN settings)
       => /\ last'.resp # "ok"
          /\ invoices' = invoices
          /\ nextId' = nextId
          /\ settings' = settings
          /\ issued' = issued]_vars

\* the account without settings sent a body the schema accepts, after a tenant
\* with settings had created an invoice, and was answered 400
C14_Witness ==
  /\ last.op = "create" /\ last.user = GoogleUser /\ last.resp = "400"
  /\ last.user \notin DOMAIN settings
  /\ "items" \in DOMAIN last.data /\ last.data.items # <<>>
  /\ invoices # <<>>

\* C15: a tenant's counter never decreases and changes only in that tenant's
\* own create; update, delete, send and payment-proof upload leave every
\* counter as it is, and a create leaves the counters and the invoices of
\* every other tenant as they are.
C15_CounterFrame ==
  [][/\ DOMAIN settings' = DOMAIN settings
     /\ \A u \in DOMAIN settings :
          /\ settings'[u].nextInvoiceNumber >= settings[u].nextInvoiceNumber
          /\ settings'[u].nextInvoiceNumber # settings[u].nextInvoiceNumber
               => (last'.op = "create" /\ last'.user = u)
     /\ last'.op = "create"
          => \A i \in DOMAIN invoices :
               invoices[i].userId # last'.user
                 => (i \in DOMAIN invoices' /\ invoices'[i] = invoices[i])]_vars

\* one tenant has created an invoice while the other held one, and each counter
\* stands one above its start
C15_Witness ==
  /\ last.op = "create" /\ last.resp = "ok"
  /\ \E i \in DOMAIN invoices : invoices[i].userId # last.user
  /\ \A u \in Users : settings[u].nextInvoiceNumber = DefaultNextInvoiceNumber + 1

\* the columns an update body can name by their own name
NamedColumns == {"notes", "paymentProof", "dueDate", "status"}

\* C16: an accepted update of an UNPAID or OVERDUE invoice leaves each of
\* notes, paymentProof, dueDate and status that the body names at the value the
\* body gives, and each of them that the body does not name at its old value
\* (bodies that carry paymentNote or paidAt set aside).
C16_UpdateAppliesFields ==
  [][\A u \in Users, id \in DOMAIN invoices, body \in UpdateBodies :
       (/\ invoices[id].status \in {"UNPAID", "OVERDUE"}
        /\ DOMAIN body \subseteq NamedColumns
        /\ UpdateInvoice(u, id, body)
        /\ last'.resp = "ok")
         => \A k \in NamedColumns :
              invoices'[id][k] = IF k \in DOMAIN body THEN body[k] ELSE invoices[id][k]]_vars

\* C17: an invoice whose status is PAID has a paidAt, and paidAt goes from
\* null to a value only in a step that leaves the invoice PAID: an invoice
\* that was never PAID has none.
C17_PaidAtOnlyWhenPaid ==
  [][\A i \in DOMAIN invoices' :
       /\ invoices'[i].status = "PAID" => invoices'[i].paidAt # Null
       /\ (invoices'[i].paidAt # Null
            /\ (i \in DOMAIN invoices => invoices[i].paidAt = Null))
           => invoices'[i].status = "PAID"]_vars

\* C18: the stored password of a user who registered with a password changes
\* only in answer to a request of that user, to PATCH /profile or PATCH
\* /profile/password, that carries the password stored at that moment.
C18_PasswordNeedsCurrent ==
  [][\A u \in DOMAIN users :
       (~users[u].isGoogleUser /\ users'[u].password # users[u].password)
         => /\ last'.user = u
            /\ last'.op \in {"profile", "password"}
            /\ last'.req # Null
            /\ Compare(last'.req[1], users[u].password)]_vars

====
